---- MODULE Spec2Model ----
(***************************************************************************)
(* Model of Finalproject.py: load_data (cleaning of the raw shipwreck      *)
(* table), filter_data (year / type / fatal filter) and the part of main   *)
(* that wires the sidebar widgets to filter_data.                          *)
(*                                                                         *)
(* Cells of the raw sheet are records [k, h]: k is the kind of the cell    *)
(* ("num" a numeric cell, "numstr" text holding a number, "text" other     *)
(* text, "blank" an empty cell, "inf" the text "inf") and h is the number  *)
(* it holds counted in halves (h = 3 is 1.5), so that the truncation of    *)
(* astype(int) is computed and not assumed.  VESSEL TYPE cells are records *)
(* [k, s]: "str" with the characters s, "nan" (empty) or "num".            *)
(***************************************************************************)
EXTENDS Integers, Sequences, FiniteSets, TLC

VARIABLES raw, pc, df, year_range, ship_types, fatal_only, filtered_df, match_count

vars == <<raw, pc, df, year_range, ship_types, fatal_only, filtered_df, match_count>>

(* ---------------------------- bounds ----------------------------------- *)
MaxRows == 2
MaxYear == 2

(* ---------------------------- raw cells -------------------------------- *)
Num(h) == [k |-> "num", h |-> h]
NumStr(h) == [k |-> "numstr", h |-> h]
Text == [k |-> "text", h |-> 0]
Blank == [k |-> "blank", h |-> 0]
InfText == [k |-> "inf", h |-> 0]

Str(s) == [k |-> "str", s |-> s]
NoType == [k |-> "nan", s |-> <<>>]
NumType == [k |-> "num", s |-> <<>>]

YearCells == {Num(2 * y) : y \in 1..MaxYear} \cup {NumStr(3), Text, Blank, InfText}

LivesCells == {Num(0), Num(1), Num(2), Num(-3), Blank, Text, InfText}

TypeCells == {Str(<<"a">>), Str(<<" ", "a", " ">>), Str(<<"b">>), NoType, NumType}

BaseRow ==
    [YEAR |-> Num(2), VESSEL_TYPE |-> Str(<<"a">>), LIVES_LOST |-> Num(0),
     LATITUDE |-> Num(2), LONGITUDE |-> Num(2)]

RawRows ==
    {[BaseRow EXCEPT !.YEAR = c] : c \in YearCells}
      \cup {[BaseRow EXCEPT !.LIVES_LOST = c] : c \in LivesCells}
      \cup {[BaseRow EXCEPT !.VESSEL_TYPE = c] : c \in TypeCells}
      \cup {[BaseRow EXCEPT !.LATITUDE = Text], [BaseRow EXCEPT !.LONGITUDE = Blank]}
      \cup {[BaseRow EXCEPT !.YEAR = Text, !.LIVES_LOST = InfText],
            [BaseRow EXCEPT !.YEAR = Num(2 * MaxYear), !.LIVES_LOST = Num(2),
                            !.VESSEL_TYPE = Str(<<"b">>)]}

RawTables == UNION {[1..n -> RawRows] : n \in 0..MaxRows}

(* ---------------------------- pandas helpers --------------------------- *)
\* pd.read_excel + rename: a RangeIndex and the canonical column names.
read_excel(t) ==
    [i \in 1..Len(t) |->
        [idx |-> i - 1, Year |-> t[i].YEAR, Type |-> t[i].VESSEL_TYPE,
         LivesLost |-> t[i].LIVES_LOST, Latitude |-> t[i].LATITUDE,
         Longitude |-> t[i].LONGITUDE]]

\* pd.to_numeric(errors="coerce"): a float, inf, or NaN.
to_numeric(c) ==
    IF c.k \in {"num", "numstr"} THEN [k |-> "num", h |-> c.h]
    ELSE IF c.k = "inf" THEN [k |-> "inf", h |-> 0]
    ELSE [k |-> "nan", h |-> 0]

\* astype(int) of a finite float: truncation toward zero.
astype_int(v) == IF v.h >= 0 THEN v.h \div 2 ELSE -((-v.h) \div 2)

\* astype(int) raises IntCastingNaNError when a value is not finite.
astype_int_raises(col) == \E i \in 1..Len(col) : col[i].k # "num"

\* fillna(0)
fillna0(v) == IF v.k = "nan" THEN [k |-> "num", h |-> 0] ELSE v

RECURSIVE lstrip(_)
lstrip(s) == IF s # <<>> /\ Head(s) = " " THEN lstrip(Tail(s)) ELSE s

RECURSIVE rstrip(_)
rstrip(s) ==
    IF s # <<>> /\ s[Len(s)] = " " THEN rstrip(SubSeq(s, 1, Len(s) - 1)) ELSE s

\* t.strip() if isinstance(t, str) else t
strip_Type(t) == IF t.k = "str" THEN [k |-> "str", s |-> rstrip(lstrip(t.s))] ELSE t

\* df.dropna() without subset: a row with any empty cell goes
dropna_any(rows) ==
    SelectSeq(rows, LAMBDA r : /\ to_numeric(r.Year).k # "nan"
                               /\ r.Type.k # "nan"
                               /\ r.LivesLost.k # "blank"
                               /\ r.Latitude.k # "blank"
                               /\ r.Longitude.k # "blank")

\* df.dropna(subset=["Year"]) after the coercion of Year
dropna_Year(rows) == SelectSeq(rows, LAMBDA r : to_numeric(r.Year).k # "nan")

\* df["LivesLost"] >= 0
derive_Fatal_ge(lives) == lives >= 0

\* df["Fatal"] = df["LivesLost"] > 0
derive_Fatal(lives) == lives > 0

(* ---------------------------- load_data -------------------------------- *)
load_data(t) ==
    LET kept == dropna_Year(read_excel(t))
        years == [i \in 1..Len(kept) |-> to_numeric(kept[i].Year)]
        lives == [i \in 1..Len(kept) |-> fillna0(to_numeric(kept[i].LivesLost))]
    IN  IF astype_int_raises(years) \/ astype_int_raises(lives)
        THEN [ok |-> FALSE, df |-> <<>>]
        ELSE [ok |-> TRUE,
              df |-> [i \in 1..Len(kept) |->
                        [idx |-> kept[i].idx,
                         Year |-> astype_int(years[i]),
                         Type |-> strip_Type(kept[i].Type),
                         LivesLost |-> astype_int(lives[i]),
                         Latitude |-> to_numeric(kept[i].Latitude),
                         Longitude |-> to_numeric(kept[i].Longitude),
                         Fatal |-> derive_Fatal(astype_int(lives[i]))]]]

(* ---------------------------- filter_data ------------------------------ *)
NoneTypes == [none |-> TRUE, items |-> {}]
TypeList(S) == [none |-> FALSE, items |-> S]

\* (df["Year"] >= start_year) & (df["Year"] < end_year)
year_mask_strict(y, yr) == y >= yr[1] /\ y < yr[2]

\* (df["Year"] >= start_year) & (df["Year"] <= end_year)
year_mask(y, yr) == y >= yr[1] /\ y <= yr[2]

\* if ship_types is not None
type_filter_active_notNone(st) == ~st.none

\* if ship_types and len(ship_types) > 0
type_filter_active(st) == ~st.none /\ st.items # {}

\* isin that lets a missing Type through
isin_nan(t, st) == t \in st.items \/ t.k = "nan"

\* filtered["Type"].isin(ship_types)
isin(t, st) == t \in st.items

\* the fatal restriction taken from df instead of filtered
filter_rows_fatal_from_df(d, yr, st, fo) ==
    LET f1 == SelectSeq(d, LAMBDA r : year_mask(r.Year, yr))
        f2 == IF type_filter_active(st) THEN SelectSeq(f1, LAMBDA r : isin(r.Type, st)) ELSE f1
        f3 == IF fo THEN SelectSeq(d, LAMBDA r : r.Fatal = TRUE) ELSE f2
    IN  f3

\* lines 58-65: the three restrictions, each applied to the previous result
filter_rows(d, yr, st, fo) ==
    LET f1 == SelectSeq(d, LAMBDA r : year_mask(r.Year, yr))
        f2 == IF type_filter_active(st) THEN SelectSeq(f1, LAMBDA r : isin(r.Type, st)) ELSE f1
        f3 == IF fo THEN SelectSeq(f2, LAMBDA r : r.Fatal = TRUE) ELSE f2
    IN  f3

\* return filtered, len(df)
filter_data_len_df(d, yr, st, fo) == <<filter_rows(d, yr, st, fo), Len(d)>>

\* return filtered, len(filtered)
filter_data(d, yr, st, fo) == <<filter_rows(d, yr, st, fo), Len(filter_rows(d, yr, st, fo))>>

\* the restrictions applied in place
df_after_filter_inplace(d, yr, st, fo) == filter_rows(d, yr, st, fo)

\* The table passed to filter_data, as the caller sees it after the call:
\* boolean indexing builds new frames and nothing is assigned in place.
df_after_filter(d, yr, st, fo) == d

(* ---------------------------- state ------------------------------------ *)
Init ==
    /\ raw \in RawTables
    /\ pc = "start"
    /\ df = <<>>
    /\ year_range = <<1, MaxYear>>
    /\ ship_types = NoneTypes
    /\ fatal_only = FALSE
    /\ filtered_df = <<>>
    /\ match_count = 0

YearRanges == (1..MaxYear) \X (1..MaxYear)
TypeChoices == {Str(<<"a">>), Str(<<"b">>)}
TypeArgs == {NoneTypes} \cup {TypeList(S) : S \in SUBSET TypeChoices}

\* df = load_data(file)
CallLoadData ==
    /\ pc = "start"
    /\ pc' = IF load_data(raw).ok THEN "loaded" ELSE "load_failed"
    /\ df' = load_data(raw).df
    /\ UNCHANGED <<raw, year_range, ship_types, fatal_only, filtered_df, match_count>>

\* filtered, n = filter_data(df, year_range, ship_types, fatal_only)
CallFilterData ==
    /\ pc = "loaded"
    /\ \E yr \in YearRanges, st \in TypeArgs, fo \in BOOLEAN :
          LET res == filter_data(df, yr, st, fo)
          IN  /\ year_range' = yr
              /\ ship_types' = st
              /\ fatal_only' = fo
              /\ filtered_df' = res[1]
              /\ match_count' = res[2]
              /\ df' = df_after_filter(df, yr, st, fo)
    /\ pc' = "filtered"
    /\ UNCHANGED raw

\* filtered, n = filter_data(filtered, year_range, ship_types, fatal_only)
\* with the arguments of the call that produced filtered
CallFilterDataAgain ==
    /\ pc \in {"filtered", "again"}
    /\ LET res == filter_data(filtered_df, year_range, ship_types, fatal_only)
       IN  /\ filtered_df' = res[1]
           /\ match_count' = res[2]
    /\ pc' = "again"
    /\ UNCHANGED <<raw, df, year_range, ship_types, fatal_only>>

Next == CallLoadData \/ CallFilterData \/ CallFilterDataAgain

Spec == Init /\ [][Next]_vars

(* ---------------------------- main ------------------------------------- *)
SetMin(S) == CHOOSE x \in S : \A y \in S : x <= y
SetMax(S) == CHOOSE x \in S : \A y \in S : x >= y
Years(d) == {d[i].Year : i \in 1..Len(d)}

\* sorted(df["Type"].dropna().unique().tolist())
vessel_type_options(d) == {d[i].Type : i \in 1..Len(d)} \ {NoType}

\* int(df["Year"].min()) raises on an empty table; sorted() raises when text
\* and numbers are mixed
main_raises(d) ==
    \/ Len(d) = 0
    \/ \E t, u \in vessel_type_options(d) : t.k = "str" /\ u.k = "num"

\* the values the slider can return
slider_values(d) ==
    LET lo == SetMin(Years(d))
        hi == SetMax(Years(d))
    IN  {yr \in (lo..hi) \X (lo..hi) : yr[1] <= yr[2]}

\* lines 107-109 of one run of main: d is the table load_data returned and
\* yr, st, fo are what the widgets returned
run_main(d, yr, st, fo) ==
    LET res == filter_data(d, yr, st, fo)
    IN  /\ year_range' = yr
        /\ ship_types' = st
        /\ fatal_only' = fo
        /\ filtered_df' = res[1]
        /\ match_count' = res[2]
        /\ df' = df_after_filter(d, yr, st, fo)
        /\ pc' = "ready"
        /\ UNCHANGED raw

\* first run of the script: every widget returns its default
MainFirstRun ==
    /\ pc = "start"
    /\ LET loaded == load_data(raw)
       IN  IF ~loaded.ok \/ main_raises(loaded.df)
           THEN /\ pc' = "app_failed"
                /\ df' = loaded.df
                /\ UNCHANGED <<raw, year_range, ship_types, fatal_only, filtered_df, match_count>>
           ELSE run_main(loaded.df, <<SetMin(Years(loaded.df)), SetMax(Years(loaded.df))>>,
                         TypeList(vessel_type_options(loaded.df)), FALSE)

\* a widget changes and the script runs again from the top
MainRerun ==
    /\ pc = "ready"
    /\ \E loaded \in {load_data(raw)} :
          \E yr \in slider_values(loaded.df),
             S \in SUBSET vessel_type_options(loaded.df), fo \in BOOLEAN :
             run_main(loaded.df, yr, TypeList(S), fo)

NextApp == MainFirstRun \/ MainRerun

SpecApp == Init /\ [][NextApp]_vars

(* ---------------------------- properties ------------------------------- *)
Range(q) == {q[i] : i \in 1..Len(q)}
IdxOf(q) == [i \in 1..Len(q) |-> q[i].idx]
Loaded == pc \in {"loaded", "filtered", "again"}
RawOf(r) == raw[r.idx + 1]
ParsesAsNumber(c) == c.k \in {"num", "numstr"}

RECURSIVE ParsedIdx(_, _)
ParsedIdx(t, i) ==
    IF i > Len(t) THEN <<>>
    ELSE IF ParsesAsNumber(t[i].YEAR) THEN <<i - 1>> \o ParsedIdx(t, i + 1)
    ELSE ParsedIdx(t, i + 1)

\* C1: the table load_data returns holds exactly the raw rows whose YEAR
\* parses as a number, in their original order, and every Year is an integer.
C1_YearRowsKept ==
    Loaded => /\ IdxOf(df) = ParsedIdx(raw, 1)
              /\ \A r \in Range(df) : r.Year \in Int

C1_Witness ==
    /\ pc = "loaded"
    /\ Len(raw) = 2
    /\ raw[1].YEAR = Text
    /\ raw[2].VESSEL_TYPE = NoType
    /\ IdxOf(df) = <<1>>

FatalRelation(q) ==
    \A r \in Range(q) :
        /\ r.Fatal = (r.LivesLost > 0)
        /\ RawOf(r).LIVES_LOST.k \in {"blank", "text"} => r.LivesLost = 0 /\ r.Fatal = FALSE

\* C2: Fatal == (LivesLost > 0) for every record of the loaded table and of
\* every subset filter_data returns; a blank or unparseable LIVES LOST gives
\* LivesLost = 0 and Fatal = false.
C2_FatalIffLivesLost == Loaded => FatalRelation(df) /\ FatalRelation(filtered_df)

C2_Witness ==
    /\ pc = "again"
    /\ Len(filtered_df) = 2
    /\ RawOf(filtered_df[1]).LIVES_LOST = Blank
    /\ filtered_df[2].Fatal

\* C3: LivesLost is a non-negative integer for every record of the loaded
\* table, whatever the raw LIVES LOST value.
C3_LivesLostNonNegative == Loaded => \A r \in Range(df) : r.LivesLost \in Nat

\* C4: with no type set and fatal_only = False filter_data returns exactly
\* the records with start_year <= Year <= end_year; an inverted range gives
\* the empty result and the count 0.
C4_YearRangeInclusive ==
    (pc = "filtered" /\ ship_types.none /\ ~fatal_only) =>
        /\ Range(filtered_df) =
              {r \in Range(df) : year_range[1] <= r.Year /\ r.Year <= year_range[2]}
        /\ match_count = Cardinality(Range(filtered_df))
        /\ year_range[1] > year_range[2] => filtered_df = <<>> /\ match_count = 0

C4_Witness ==
    /\ pc = "filtered" /\ ship_types.none /\ ~fatal_only
    /\ year_range = <<1, MaxYear>>
    /\ Len(df) = 2
    /\ df[1].Year = MaxYear
    /\ df[2].Year = 1
    /\ filtered_df = df

\* C5: ship_types = [] gives the same subset and count as ship_types = None.
C5_EmptyTypesIsNone ==
    (pc = "filtered" /\ ship_types = TypeList({})) =>
        <<filtered_df, match_count>> = filter_data(df, year_range, NoneTypes, fatal_only)

C5_Witness ==
    /\ pc = "filtered"
    /\ ship_types = TypeList({})
    /\ Len(filtered_df) > 0

Matches(r) ==
    /\ year_range[1] <= r.Year /\ r.Year <= year_range[2]
    /\ (~ship_types.none /\ ship_types.items # {}) => r.Type \in ship_types.items
    /\ fatal_only => r.Fatal

\* C6: filter_data returns exactly the records that satisfy all the active
\* conditions, the count is the number of records returned, and fatal_only
\* over the full range with no type filter gives exactly the Fatal records.
C6_Conjunction ==
    pc = "filtered" =>
        /\ filtered_df = SelectSeq(df, Matches)
        /\ match_count = Len(filtered_df)
        /\ (fatal_only /\ year_range = <<1, MaxYear>> /\ ship_types.none) =>
              Range(filtered_df) = {r \in Range(df) : r.Fatal}

C6_Witness ==
    /\ pc = "filtered"
    /\ fatal_only
    /\ ship_types = TypeList({Str(<<"b">>)})
    /\ Len(df) = 2
    /\ df[1].Fatal /\ df[1].Type = Str(<<"a">>)
    /\ match_count = 1

\* C7: filtering the result of filter_data again with the same selection
\* gives the identical records and the identical count.
C7_Idempotent ==
    [][pc' = "again" => filtered_df' = filtered_df /\ match_count' = match_count]_vars

C7_Witness ==
    /\ pc = "again"
    /\ Len(df) = 2
    /\ match_count = 1

\* C8: an interaction leaves the cleaned table as it was, and the view after
\* it is filter_data(cleaned table, current selection).
C8_TableNotMutated ==
    [][pc = "ready" =>
          /\ df' = df
          /\ <<filtered_df', match_count'>> = filter_data(df, year_range', ship_types', fatal_only')]_vars

C8_Witness ==
    /\ pc = "ready"
    /\ fatal_only
    /\ Len(df) = 2
    /\ match_count = 1

\* C9: load_data never fails whatever the cells hold, and a bad LIVES LOST,
\* LATITUDE, LONGITUDE or VESSEL TYPE never removes the row: LivesLost
\* defaults to 0, Latitude and Longitude become missing independently and
\* a non-text Type is left as it is.
C9_LoadNeverFails ==
    /\ pc # "load_failed"
    /\ Loaded =>
          /\ \A i \in 1..Len(raw) :
                ParsesAsNumber(raw[i].YEAR) => \E r \in Range(df) : r.idx = i - 1
          /\ \A r \in Range(df) :
                /\ ~ParsesAsNumber(RawOf(r).LIVES_LOST) => r.LivesLost = 0
                /\ r.Latitude.k = "nan" <=> ~ParsesAsNumber(RawOf(r).LATITUDE)
                /\ r.Longitude.k = "nan" <=> ~ParsesAsNumber(RawOf(r).LONGITUDE)
                /\ RawOf(r).VESSEL_TYPE.k # "str" => r.Type = RawOf(r).VESSEL_TYPE

MissingType(q) == \E r \in Range(q) : r.Type = NoType
DefaultSelection ==
    /\ year_range = <<SetMin(Years(df)), SetMax(Years(df))>>
    /\ ship_types = TypeList(vessel_type_options(df))
    /\ ~fatal_only

\* C10 as stated: a non-empty type set keeps no record with a missing Type,
\* and the default selection shows the table minus its records with a
\* missing Type, which differs from the table and from the empty-selection
\* view whenever a record has a missing Type.
C10_DefaultDropsMissing ==
    pc = "ready" =>
        /\ type_filter_active(ship_types) => ~MissingType(filtered_df)
        /\ DefaultSelection =>
              /\ filtered_df = SelectSeq(df, LAMBDA r : r.Type # NoType)
              /\ MissingType(df) =>
                    /\ filtered_df # df
                    /\ filtered_df # filter_data(df, year_range, TypeList({}), FALSE)[1]

\* C10 amended: the same, for a table in which some record has a Type.
C10_DefaultDropsMissingSomeType ==
    pc = "ready" =>
        /\ type_filter_active(ship_types) => ~MissingType(filtered_df)
        /\ (DefaultSelection /\ vessel_type_options(df) # {}) =>
              /\ filtered_df = SelectSeq(df, LAMBDA r : r.Type # NoType)
              /\ MissingType(df) =>
                    /\ filtered_df # df
                    /\ filtered_df # filter_data(df, year_range, TypeList({}), FALSE)[1]

C10_Witness ==
    /\ pc = "ready"
    /\ DefaultSelection
    /\ Len(df) = 2
    /\ df[1].Type = NoType
    /\ df[2].Type # NoType
    /\ match_count = 1

====
